---- MODULE Spec2Model ----
EXTENDS Integers, Sequences, FiniteSets, TLC

(***************************************************************************)
(* Model of src/api/handle.js: the action router `handler(request)` and    *)
(* the external collaborators it calls (put / list / del of the blob       *)
(* store, fetch of a stored url, the request body reader, Date.now()).     *)
(*                                                                         *)
(* An invocation of the handler is a coroutine: it runs synchronously up   *)
(* to its next `await` and is resumed when the awaited operation settles.  *)
(* Each action below is one such resumption together with all the code     *)
(* that runs up to the next await or to the returned Response.  Several    *)
(* invocations (Slots) run interleaved, as the host runtime allows.        *)
(***************************************************************************)

VARIABLES h, store, now, env

vars == <<h, store, now, env>>

\* Concurrent invocations of the handler.
Slots == {"r1", "r2"}

\* Date.now() ranges over 0..MaxClock.
MaxClock == 1

\* searchParams.get(k) of a parameter that is not in the query string.
Absent == "<absent>"

(***************************************************************************)
(* JSON values.  Strings are sequences of tokens (one token stands for one *)
(* character or one fixed run of characters).                              *)
(***************************************************************************)
JUndef == [t |-> "undef", s |-> <<>>, n |-> 0]
JNull == [t |-> "null", s |-> <<>>, n |-> 0]
JStr(s) == [t |-> "str", s |-> s, n |-> 0]
JNum(n) == [t |-> "num", s |-> <<>>, n |-> n]
JObj == [t |-> "obj", s |-> <<>>, n |-> 0]
JArr == [t |-> "arr", s |-> <<>>, n |-> 0]

\* JavaScript truthiness (the `!x`, `x || y`, `if (x)` tests).
Truthy(j) ==
  CASE j.t = "undef" -> FALSE
    [] j.t = "null" -> FALSE
    [] j.t = "str" -> j.s # <<>>
    [] j.t = "num" -> j.n # 0
    [] OTHER -> TRUE

\* A parsed JSON document (request body or fetched blob): kind "obj" is an
\* object with the four properties below (JUndef when the property is not
\* there), kind "null" is the JSON text `null`, kind "num" a JSON number.
Doc(kind, name, values, image, metadata) ==
  [kind |-> kind, name |-> name, values |-> values, image |-> image,
   metadata |-> metadata, imageUrl |-> "", timestamp |-> 0]

NullDoc == Doc("null", JUndef, JUndef, JUndef, JUndef)
NumDoc == Doc("num", JUndef, JUndef, JUndef, JUndef)
EmptyObj == Doc("obj", JUndef, JUndef, JUndef, JUndef)
\* What request.json() cannot parse (no body, or text that is not JSON).
NotJson == Doc("notjson", JUndef, JUndef, JUndef, JUndef)
\* Bytes (an image, a raw upload): not a JSON document.
Bytes == Doc("bytes", JUndef, JUndef, JUndef, JUndef)

(***************************************************************************)
(* Pure helpers of the handler.                                            *)
(***************************************************************************)

\* The character class [a-zA-Z0-9-_] of line 92.
SafeChars ==
  {"a","b","c","d","e","f","g","h","i","j","k","l","m","n","o","p","q","r",
   "s","t","u","v","w","x","y","z","A","B","C","D","E","F","G","H","I","J",
   "K","L","M","N","O","P","Q","R","S","T","U","V","W","X","Y","Z","0","1",
   "2","3","4","5","6","7","8","9","-","_"}

RECURSIVE Join(_)
Join(s) == IF s = <<>> THEN "" ELSE Head(s) \o Join(Tail(s))

\* ccData.name.replace(/[^a-zA-Z0-9-_]/g, '_')
SafeName(name) ==
  Join([i \in DOMAIN name |-> IF name[i] \in SafeChars THEN name[i] ELSE "_"])

\* Tokens of image strings.  "\n" is a line terminator, "*" a character
\* that is not in the base64 alphabet, "QUJD" four base64 characters.
WordTokens == {"jpeg", "png"}
LineTerminators == {"\n"}
Base64Tokens == {"QUJD"}

\* image.match(/^data:image\/\w+;base64,(.+)$/): <<TRUE, payload>> or
\* <<FALSE, <<>>>>.  \w+ is one or more word tokens, (.+) one or more
\* tokens none of which is a line terminator, up to the end of the string.
RECURSIVE WordRun(_, _)
WordRun(s, i) ==
  IF i <= Len(s) /\ s[i] \in WordTokens THEN WordRun(s, i + 1) ELSE i

Base64Match(s) ==
  IF Len(s) >= 1 /\ s[1] = "data:image/"
  THEN LET j == WordRun(s, 2)
       IN IF /\ j > 2
             /\ j <= Len(s)
             /\ s[j] = ";base64,"
             /\ j + 1 <= Len(s)
             /\ \A k \in (j + 1)..Len(s) : s[k] \notin LineTerminators
          THEN <<TRUE, SubSeq(s, j + 1, Len(s))>>
          ELSE <<FALSE, <<>>>>
  ELSE <<FALSE, <<>>>>

\* atob(base64Data) throws unless every character is base64.
AtobThrows(payload) == \E k \in DOMAIN payload : payload[k] \notin Base64Tokens
\* binaryString.length: three bytes for four base64 characters.
AtobLength(payload) == 3 * Len(payload)

\* parseInt(x) of the limit parameter ("50" when absent); 0 stands for NaN.
ParseInt(x) == CASE x = "50" -> 50 [] x = "1" -> 1 [] OTHER -> 0

corsHeaders ==
  [AccessControlAllowOrigin |-> "*",
   AccessControlAllowMethods |-> "GET, POST, DELETE, OPTIONS",
   AccessControlAllowHeaders |-> "Content-Type",
   ContentType |-> "application/json"]

availableActions ==
  <<"upload", "cc", "save-enhanced", "list-uploads", "delete-upload",
    "get-metadata", "health">>

\* The body `null` of new Response(null, ...).
NullBody == [null |-> TRUE]

(***************************************************************************)
(* Requests.                                                               *)
(***************************************************************************)
Methods == {"GET", "POST", "DELETE", "PUT", "OPTIONS"}
KnownActions == {availableActions[i] : i \in DOMAIN availableActions}
\* Values of the `action` query parameter: the seven names, a name that is
\* none of them, the empty string, and no parameter.
ActionValues == KnownActions \cup {"bogus", "", Absent}

Req(method, action, url, filename, prefix, limit, body) ==
  [method |-> method, action |-> action, url |-> url, filename |-> filename,
   prefix |-> prefix, limit |-> limit, body |-> body]

\* The url the store gives the object of a pathname.
Url(pathname) == "https://blob/" \o pathname.dir \o pathname.base

StoredObject(pathname, content, size, at) ==
  [pathname |-> pathname, url |-> Url(pathname), downloadUrl |-> Url(pathname),
   size |-> size, uploadedAt |-> at, content |-> content]

\* Objects that are in the store before the modelled requests arrive: two
\* filter documents written by earlier `cc` POSTs and one metadata
\* document written by an earlier `save-enhanced`.

FilterA == Doc("obj", JStr(<<"a">>), JObj, JUndef, JUndef)
FilterB == Doc("obj", JStr(<<"b", "!">>), JNum(7), JUndef, JUndef)
Meta0 == [Doc("obj", JUndef, JUndef, JUndef, JUndef) EXCEPT
            !.imageUrl = "https://blob/enhanced/enhanced_0.jpg"]

PathA == [dir |-> "cc-filters/", base |-> "a_0.json"]
PathB == [dir |-> "cc-filters/", base |-> "b__0.json"]
PathM == [dir |-> "metadata/", base |-> "meta_0.json"]

InitStore ==
  <<StoredObject(PathA, FilterA, 1, 0), StoredObject(PathB, FilterB, 1, 0),
    StoredObject(PathM, Meta0, 1, 0)>>

UrlValues == {"", Url(PathA), "https://blob/enhanced/enhanced_0.jpg"}

CcBodies ==
  {NullDoc, NumDoc, EmptyObj,
   Doc("obj", JStr(<<"a">>), JObj, JUndef, JUndef),
   Doc("obj", JStr(<<"a", "!">>), JObj, JUndef, JUndef),
   Doc("obj", JStr(<<"a", "?">>), JNum(7), JUndef, JUndef),
   Doc("obj", JStr(<<>>), JObj, JUndef, JUndef),
   Doc("obj", JStr(<<"a">>), JUndef, JUndef, JUndef),
   Doc("obj", JStr(<<"a">>), JNum(0), JUndef, JUndef),
   Doc("obj", JNum(5), JObj, JUndef, JUndef)}

ImageValues ==
  {JUndef, JStr(<<>>), JNum(5), JObj, JArr,
   JStr(<<"n", "o", "t">>),
   JStr(<<"data:image/", ";base64,", "QUJD">>),
   JStr(<<"data:image/", "jpeg", ";base64,">>),
   JStr(<<"data:image/", "jpeg", ";base64,", "QUJD", "\n">>),
   JStr(<<"x", "data:image/", "jpeg", ";base64,", "QUJD">>),
   JStr(<<"data:image/", "jpeg", ";base64,", "QUJD", "*">>),
   JStr(<<"data:image/", "jpeg", ";base64,", "QUJD">>),
   JStr(<<"data:image/", "png", ";base64,", "QUJD", "QUJD">>)}

SaveBodies ==
  {NullDoc, NumDoc}
  \cup {Doc("obj", JUndef, JUndef, i, JUndef) : i \in ImageValues}
  \cup {Doc("obj", JUndef, JUndef, i, JObj) :
          i \in {JUndef, JNum(5), JStr(<<"n", "o", "t">>),
                 JStr(<<"data:image/", "jpeg", ";base64,", "QUJD", "*">>),
                 JStr(<<"data:image/", "jpeg", ";base64,", "QUJD">>)}}
  \cup {Doc("obj", JUndef, JUndef,
            JStr(<<"data:image/", "jpeg", ";base64,", "QUJD">>), JNull)}

Requests ==
  {Req(m, a, Absent, Absent, Absent, Absent, NotJson) :
     m \in Methods, a \in ActionValues}
  \cup {Req("POST", "cc", Absent, Absent, Absent, Absent, b) : b \in CcBodies}
  \cup {Req("POST", "save-enhanced", Absent, Absent, Absent, Absent, b) :
          b \in SaveBodies}
  \cup {Req("DELETE", a, u, Absent, Absent, Absent, NotJson) :
          a \in {"cc", "delete-upload"}, u \in UrlValues}
  \cup {Req("POST", "upload", Absent, "f.png", Absent, Absent, NotJson)}
  \cup {Req("GET", "list-uploads", Absent, Absent, "cc-filters/", l, NotJson) :
          l \in {"1", "x"}}
  \cup {Req("OPTIONS", "cc", Url(PathA), Absent, Absent, Absent,
            Doc("obj", JStr(<<"a">>), JObj, JUndef, JUndef))}

(***************************************************************************)
(* State.  h[s] is one invocation of handler(request): where it is         *)
(* suspended (pc), its locals, what it returned (resp), the exceptions     *)
(* that reached its catch (thrown), and a log of the calls it made (calls) *)
(* and of how its awaited store calls settled (outcomes).  store is the    *)
(* blob store, now the value of Date.now(), env the value of               *)
(* process.env.NODE_ENV.                                                   *)
(***************************************************************************)
NoReq == Req("", "", "", "", "", "", NotJson)
NoBlob == [url |-> "", downloadUrl |-> "", size |-> 0]

Idle ==
  [pc |-> "idle", req |-> NoReq, resp |-> <<>>, calls |-> <<>>,
   bodyRead |-> FALSE, outcomes |-> <<>>, thrown |-> <<>>, escaped |-> FALSE, blob |-> NoBlob,
   metadata |-> JUndef, blobs |-> <<>>, items |-> <<>>]

Last(q) == q[Len(q)]

\* new Response(JSON.stringify(data), {status, headers}) returned to the host.
jsonResponse(hs, data, status, headers) ==
  [hs EXCEPT !.pc = "done",
             !.resp = Append(@, [status |-> status, headers |-> headers,
                                 body |-> data])]

\* An exception thrown inside the try block: the catch of lines 297-304.
CatchEscapes(hs, msg, e) ==
  [hs EXCEPT !.pc = "done", !.thrown = Append(@, msg), !.escaped = TRUE]
Catch(hs, msg, e) ==
  LET message == IF msg # "" THEN msg ELSE "Internal server error"
      thrown == [hs EXCEPT !.thrown = Append(@, msg)]
  IN IF e = "development"
     THEN jsonResponse(thrown, [success |-> FALSE, error |-> message,
                                 stack |-> "Error: " \o msg], 500, corsHeaders)
     ELSE jsonResponse(thrown, [success |-> FALSE, error |-> message],
                       500, corsHeaders)

Call(hs, c, pc) == [hs EXCEPT !.calls = Append(@, c), !.pc = pc]

PutCall(dir, base, content, size, suffix, contentType) ==
  [op |-> "put", pathname |-> [dir |-> dir, base |-> base], content |-> content,
   size |-> size, addRandomSuffix |-> suffix, contentType |-> contentType]
ListCall(prefix, limit) == [op |-> "list", prefix |-> prefix, limit |-> limit]
DelCall(url) == [op |-> "del", url |-> url]
FetchCall(url) == [op |-> "fetch", url |-> url]

\* searchParams.get('action') || 'unknown'
ActionOf(r) == IF r.action \in {Absent, ""} THEN "unknown" ELSE r.action

MethodNotAllowed(hs) ==
  jsonResponse(hs, [success |-> FALSE, error |-> "Method not allowed"], 405,
               corsHeaders)

\* Lines 282-295.
RouteNotFound(hs) ==
  jsonResponse(hs, [success |-> FALSE, error |-> "Invalid action",
                    availableActions |-> availableActions], 404, corsHeaders)

\* Lines 28-38: up to the await of put.
UploadRoute(hs, t) ==
  IF hs.req.method # "POST"
  THEN MethodNotAllowed(hs)
  ELSE LET filename == IF hs.req.filename \in {Absent, ""}
                       THEN "upload_" \o ToString(t) \o ".jpg"
                       ELSE hs.req.filename
       IN Call([hs EXCEPT !.bodyRead = TRUE],
               PutCall("uploads/", filename, Bytes, 2, TRUE, ""), "upload_put")

\* Lines 50-126 up to the first await; a method that is none of GET, POST,
\* DELETE leaves the block and runs through the tests of lines 129-265
\* (all false, the action being 'cc') to the return of line 283.
CcRoute(hs) ==
  IF hs.req.method = "GET" THEN Call(hs, ListCall("cc-filters/", 100), "cc_list")
  ELSE IF hs.req.method = "POST" THEN [hs EXCEPT !.pc = "cc_json", !.bodyRead = TRUE]
  ELSE IF hs.req.method = "DELETE"
  THEN IF hs.req.url \in {Absent, ""}
       THEN jsonResponse(hs, [success |-> FALSE, error |-> "URL parameter required"],
                         400, corsHeaders)
       ELSE Call(hs, DelCall(hs.req.url), "cc_del")
  ELSE RouteNotFound(hs)

\* Lines 129-134.
SaveEnhancedRoute(hs) ==
  IF hs.req.method # "POST"
  THEN MethodNotAllowed(hs)
  ELSE [hs EXCEPT !.pc = "se_json", !.bodyRead = TRUE]

\* Lines 187-195.
ListUploadsRoute(hs) ==
  IF hs.req.method # "GET"
  THEN MethodNotAllowed(hs)
  ELSE LET prefix == IF hs.req.prefix \in {Absent, ""} THEN "uploads/"
                     ELSE hs.req.prefix
           limit == ParseInt(IF hs.req.limit \in {Absent, ""} THEN "50"
                             ELSE hs.req.limit)
       IN Call(hs, ListCall(prefix, limit), "lu_list")

\* Lines 211-225.
DeleteUploadRouteNoCheck(hs) ==
  IF hs.req.method # "DELETE"
  THEN MethodNotAllowed(hs)
  ELSE Call(hs, DelCall(hs.req.url), "du_del")
DeleteUploadRoute(hs) ==
  IF hs.req.method # "DELETE"
  THEN MethodNotAllowed(hs)
  ELSE IF hs.req.url \in {Absent, ""}
  THEN jsonResponse(hs, [success |-> FALSE, error |-> "URL parameter required"],
                    400, corsHeaders)
  ELSE Call(hs, DelCall(hs.req.url), "du_del")

\* Lines 234-239.
GetMetadataRoute(hs) ==
  IF hs.req.method # "GET"
  THEN MethodNotAllowed(hs)
  ELSE Call(hs, ListCall("metadata/", 100), "gm_list")

\* Lines 265-280.
HealthRoute(hs, t) ==
  jsonResponse(hs, [success |-> TRUE, status |-> "healthy", timestamp |-> t,
                    availableActions |-> availableActions], 200, corsHeaders)

\* Lines 26-295: the chain of `if (action === ...)` tests.
Route(hs, t) ==
  LET action == ActionOf(hs.req)
  IN IF action = "upload" THEN UploadRoute(hs, t)
     ELSE IF action = "cc" THEN CcRoute(hs)
     ELSE IF action = "save-enhanced" THEN SaveEnhancedRoute(hs)
     ELSE IF action = "list-uploads" THEN ListUploadsRoute(hs)
     ELSE IF action = "delete-upload" THEN DeleteUploadRoute(hs)
     ELSE IF action = "get-metadata" THEN GetMetadataRoute(hs)
     ELSE IF action = "health" THEN HealthRoute(hs, t)
     ELSE RouteNotFound(hs)

\* Lines 8-24 and the entry into the try block.
EnterNoPreflight(hs, t) == Route(hs, t)
Enter(hs, t) ==
  IF hs.req.method = "OPTIONS"
  THEN [hs EXCEPT !.pc = "done",
                  !.resp = Append(@, [status |-> 200, headers |-> corsHeaders,
                                      body |-> NullBody])]
  ELSE Route(hs, t)

(***************************************************************************)
(* The blob store (external): put, list, del on a sequence of objects.     *)
(***************************************************************************)
RECURSIVE IndexOf(_, _, _)
IndexOf(q, pathname, i) ==
  IF i > Len(q) THEN 0
  ELSE IF q[i].pathname = pathname THEN i ELSE IndexOf(q, pathname, i + 1)

\* put: a new object, or the object of that pathname replaced.
StorePut(q, obj) ==
  LET i == IndexOf(q, obj.pathname, 1)
  IN IF i = 0 THEN Append(q, obj) ELSE [q EXCEPT ![i] = obj]

StoreDel(q, url) == SelectSeq(q, LAMBDA o : o.url # url)

Take(q, n) == IF n >= Len(q) THEN q ELSE SubSeq(q, 1, n)

\* list({prefix, limit}); a limit that is not a number (0) is not applied.
StoreList(q, prefix, limit) ==
  LET found == SelectSeq(q, LAMBDA o : o.pathname.dir = prefix)
  IN IF limit = 0 THEN found ELSE Take(found, limit)

\* What put() resolves to.
BlobOf(obj) == [url |-> obj.url, downloadUrl |-> obj.downloadUrl, size |-> obj.size]

(***************************************************************************)
(* Continuations of the handler after an await.                            *)
(***************************************************************************)

\* Lines 83-95, after `await request.json()` gave ccData.
CcPost(hs, ccData, t, e) ==
  IF ccData.kind = "notjson"
  THEN Catch(hs, "Unexpected end of JSON input", e)
  ELSE IF ccData.kind = "null"
  THEN Catch(hs, "Cannot read properties of null (reading 'name')", e)
  ELSE IF ~Truthy(ccData.name) \/ ~Truthy(ccData.values)
  THEN jsonResponse(hs, [success |-> FALSE, error |-> "Missing name or values"],
                    400, corsHeaders)
  ELSE IF ccData.name.t # "str"
  THEN Catch(hs, "ccData.name.replace is not a function", e)
  ELSE LET safeName == SafeName(ccData.name.s)
           base == safeName \o "_" \o ToString(t) \o ".json"
       IN Call(hs, PutCall("cc-filters/", base, ccData, 1, FALSE,
                           "application/json"), "cc_put")

\* Lines 134-164, after `await request.json()` gave body.
SaveEnhanced(hs, body, t, e) ==
  IF body.kind = "notjson"
  THEN Catch(hs, "Unexpected end of JSON input", e)
  ELSE IF body.kind = "null"
  THEN Catch(hs, "Cannot destructure property 'image' of 'body' as it is null", e)
  ELSE IF ~Truthy(body.image)
  THEN jsonResponse(hs, [success |-> FALSE, error |-> "No image provided"],
                    400, corsHeaders)
  ELSE IF body.image.t # "str"
  THEN Catch(hs, "image.match is not a function", e)
  ELSE LET base64Match == Base64Match(body.image.s)
       IN IF ~base64Match[1]
          THEN jsonResponse(hs, [success |-> FALSE,
                                 error |-> "Invalid image format"],
                            400, corsHeaders)
          ELSE IF AtobThrows(base64Match[2])
          THEN Catch(hs, "The string to be decoded is not correctly encoded.", e)
          ELSE Call([hs EXCEPT !.metadata = body.metadata],
                    PutCall("enhanced/", "enhanced_" \o ToString(t) \o ".jpg",
                            Bytes, AtobLength(base64Match[2]), FALSE,
                            "image/jpeg"), "se_put")

\* Lines 166-183, after the image put resolved to blob.
SaveEnhancedStoredAlwaysMeta(hs, blob, t) ==
  Call([hs EXCEPT !.blob = blob],
       PutCall("metadata/", "meta_" \o ToString(t) \o ".json",
               [EmptyObj EXCEPT !.imageUrl = blob.url, !.timestamp = t],
               1, FALSE, "application/json"), "se_meta")
SaveEnhancedStored(hs, blob, t) ==
  LET stored == [hs EXCEPT !.blob = blob]
  IN IF Truthy(hs.metadata)
     THEN Call(stored,
               PutCall("metadata/", "meta_" \o ToString(t) \o ".json",
                       [EmptyObj EXCEPT !.imageUrl = blob.url, !.timestamp = t],
                       1, FALSE, "application/json"), "se_meta")
     ELSE jsonResponse(stored, [success |-> TRUE, url |-> blob.url,
                                downloadUrl |-> blob.downloadUrl,
                                size |-> blob.size], 200, corsHeaders)

\* Lines 178-183, after the metadata put resolved.
SaveEnhancedDone(hs) ==
  jsonResponse(hs, [success |-> TRUE, url |-> hs.blob.url,
                    downloadUrl |-> hs.blob.downloadUrl, size |-> hs.blob.size],
               200, corsHeaders)

\* Lines 40-46.
UploadDone(hs, blob, t) ==
  jsonResponse(hs, [success |-> TRUE, url |-> blob.url,
                    downloadUrl |-> blob.downloadUrl, size |-> blob.size,
                    uploadedAt |-> t], 200, corsHeaders)

\* Lines 100-105.
CcPostDone(hs, blob, t) ==
  jsonResponse(hs, [success |-> TRUE, url |-> blob.url,
                    name |-> Last(hs.calls).content.name, uploadedAt |-> t],
               200, corsHeaders)

\* Lines 121-124 and 227-230.
DeleteDone(hs) ==
  jsonResponse(hs, [success |-> TRUE,
                    message |-> IF hs.pc = "cc_del"
                                THEN "CC filter deleted successfully"
                                ELSE "Upload deleted successfully"],
               200, corsHeaders)

\* Lines 197-207.
ListUploadsDone(hs, blobs) ==
  jsonResponse(hs, [success |-> TRUE,
                    uploads |-> [i \in DOMAIN blobs |->
                                   [url |-> blobs[i].url,
                                    downloadUrl |-> blobs[i].downloadUrl,
                                    pathname |-> blobs[i].pathname,
                                    size |-> blobs[i].size,
                                    uploadedAt |-> blobs[i].uploadedAt]],
                    count |-> Len(blobs)], 200, corsHeaders)

\* An awaited put, list or del rejects with an error whose message is msg:
\* every such await is inside the try block and has no try of its own.
RejectedMetaIgnored(hs, msg, e) ==
  IF hs.pc = "se_meta" THEN SaveEnhancedDone(hs) ELSE Catch(hs, msg, e)
Rejected(hs, msg, e) == Catch(hs, msg, e)

(***************************************************************************)
(* List-then-fetch (cc GET, get-metadata): one async callback per listed   *)
(* blob, all started by blobs.map, joined by Promise.all.                  *)
(***************************************************************************)
Item(st, data) == [st |-> st, data |-> data]
Settled(item) == item.st \in {"fetchfail", "parsefail", "parsed"}

\* The `return null` of the callbacks' catch.
Null == [null |-> TRUE]

\* Lines 58-70: what the callback of blob returns once its fetch and its
\* response.json() have settled as item says.
FilterEntry(blob, item) ==
  [null |-> FALSE,
   name |-> IF Truthy(item.data.name) THEN item.data.name
            ELSE JStr(<<blob.pathname.base>>),
   url |-> blob.url, uploadedAt |-> blob.uploadedAt, size |-> blob.size,
   values |-> IF Truthy(item.data.values)
              THEN [whole |-> FALSE, value |-> item.data.values, doc |-> EmptyObj]
              ELSE [whole |-> TRUE, value |-> JUndef, doc |-> item.data]]
FilterOfKeepsFailed(blob, item) ==
  IF item.st = "parsed" /\ item.data.kind = "null" THEN Null
  ELSE FilterEntry(blob, item)
FilterOf(blob, item) ==
  IF item.st # "parsed" THEN Null
  ELSE IF item.data.kind = "null" THEN Null
  ELSE FilterEntry(blob, item)

\* Lines 243-253.
MetadataOf(blob, item) ==
  IF item.st # "parsed" THEN Null
  ELSE [null |-> FALSE, data |-> item.data, metadataUrl |-> blob.url,
        uploadedAt |-> blob.uploadedAt]

NotNull(q) == SelectSeq(q, LAMBDA f : ~f.null)

\* Lines 74-78, once Promise.all resolved.
CcGetDone(hs) ==
  LET filters == [i \in DOMAIN hs.blobs |-> FilterOf(hs.blobs[i], hs.items[i])]
  IN jsonResponse(hs, [success |-> TRUE, filters |-> NotNull(filters),
                       count |-> Len(NotNull(filters))], 200, corsHeaders)

\* Lines 257-261.
GetMetadataDone(hs) ==
  LET metadata == [i \in DOMAIN hs.blobs |-> MetadataOf(hs.blobs[i], hs.items[i])]
  IN jsonResponse(hs, [success |-> TRUE, metadata |-> NotNull(metadata),
                       count |-> Len(NotNull(metadata))], 200, corsHeaders)

\* Promise.all: resolves when every callback has returned.
Joined(hs) ==
  IF \A i \in DOMAIN hs.items : Settled(hs.items[i])
  THEN IF hs.pc = "cc_fetch" THEN CcGetDone(hs) ELSE GetMetadataDone(hs)
  ELSE hs

RECURSIVE FetchAll(_, _, _)
FetchAll(hs, blobs, i) ==
  IF i > Len(blobs) THEN hs
  ELSE FetchAll([hs EXCEPT !.calls = Append(@, FetchCall(blobs[i].url))],
                blobs, i + 1)

\* Lines 54-59 and 239-244: list resolved to blobs; every callback runs up
\* to its `await fetch(blob.url)`.
Listed(hs, blobs) ==
  Joined(FetchAll([hs EXCEPT !.pc = IF hs.pc = "cc_list" THEN "cc_fetch"
                                    ELSE "gm_fetch",
                             !.blobs = blobs,
                             !.items = [i \in DOMAIN blobs |->
                                          Item("fetching", NotJson)]],
                  blobs, 1))

\* What `await response.json()` of a fetched url can give: the stored
\* document, the JSON value null, or (NotJson) a rejection.
Fetched(q, url) ==
  {NotJson, NullDoc}
  \cup {q[i].content : i \in {k \in DOMAIN q : q[k].url = url /\ q[k].content.kind # "bytes"}}

\* The documents a fetched url can serve.
Documents == {NotJson, NullDoc} \cup CcBodies \cup {FilterA, FilterB, Meta0}

\* Messages of the errors the store rejects with.
StoreErrors == {"BlobError: request failed", ""}
Suffixes == {"k3", "p9"}

\* The awaited store call of hs settled as outcome.
Settle(hs, outcome) == [hs EXCEPT !.outcomes = Append(@, outcome)]

(***************************************************************************)
(* Actions.                                                                *)
(***************************************************************************)
Init ==
  /\ h = [s \in Slots |-> Idle]
  /\ store = InitStore
  /\ now = 0
  /\ env \in {"production", "development"}

\* The host calls handler(request).
Receive(s, r) ==
  /\ h[s].pc = "idle"
  /\ s = "r2" => h["r1"].pc # "idle"
  /\ h' = [h EXCEPT ![s] = Enter([h[s] EXCEPT !.req = r], now)]
  /\ UNCHANGED <<store, now, env>>

\* `await request.json()` settles.
BodyRead(s) ==
  /\ h[s].pc \in {"cc_json", "se_json"}
  /\ h' = [h EXCEPT ![s] = IF h[s].pc = "cc_json"
                           THEN CcPost(h[s], h[s].req.body, now, env)
                           ELSE SaveEnhanced(h[s], h[s].req.body, now, env)]
  /\ UNCHANGED <<store, now, env>>

\* `await put(...)` resolves.
PutResolved(s, sfx) ==
  /\ h[s].pc \in {"upload_put", "cc_put", "se_put", "se_meta"}
  /\ LET c == Last(h[s].calls)
         pathname == IF c.addRandomSuffix
                     THEN [c.pathname EXCEPT !.base = @ \o "-" \o sfx]
                     ELSE c.pathname
         obj == StoredObject(pathname, c.content, c.size, now)
         hs == Settle(h[s], "resolved")
     IN /\ store' = StorePut(store, obj)
        /\ h' = [h EXCEPT ![s] =
                   CASE hs.pc = "upload_put" -> UploadDone(hs, BlobOf(obj), now)
                     [] hs.pc = "cc_put" -> CcPostDone(hs, BlobOf(obj), now)
                     [] hs.pc = "se_put" -> SaveEnhancedStored(hs, BlobOf(obj), now)
                     [] hs.pc = "se_meta" -> SaveEnhancedDone(hs)]
  /\ UNCHANGED <<now, env>>

\* `await list(...)` resolves.
ListResolved(s) ==
  /\ h[s].pc \in {"cc_list", "gm_list", "lu_list"}
  /\ LET c == Last(h[s].calls)
         blobs == StoreList(store, c.prefix, c.limit)
         hs == Settle(h[s], "resolved")
     IN h' = [h EXCEPT ![s] = IF hs.pc = "lu_list"
                              THEN ListUploadsDone(hs, blobs)
                              ELSE Listed(hs, blobs)]
  /\ UNCHANGED <<store, now, env>>

\* `await del(url)` resolves.
DelResolved(s) ==
  /\ h[s].pc \in {"cc_del", "du_del"}
  /\ store' = StoreDel(store, Last(h[s].calls).url)
  /\ h' = [h EXCEPT ![s] = DeleteDone(Settle(h[s], "resolved"))]
  /\ UNCHANGED <<now, env>>

\* An awaited put, list or del rejects: the catch of line 297.
StoreRejected(s, msg) ==
  /\ h[s].pc \in {"upload_put", "cc_put", "se_put", "se_meta", "cc_list",
                  "gm_list", "lu_list", "cc_del", "du_del"}
  /\ h' = [h EXCEPT ![s] = Rejected(Settle(h[s], "rejected"), msg, env)]
  /\ UNCHANGED <<store, now, env>>

\* `await fetch(blob.url)` of callback i settles.
FetchSettled(s, i, ok) ==
  /\ h[s].pc \in {"cc_fetch", "gm_fetch"}
  /\ i \in DOMAIN h[s].items
  /\ h[s].items[i].st = "fetching"
  /\ h' = [h EXCEPT ![s] =
             Joined([h[s] EXCEPT !.items[i].st = IF ok THEN "reading"
                                                 ELSE "fetchfail"])]
  /\ UNCHANGED <<store, now, env>>

\* `await response.json()` of callback i settles.
JsonSettled(s, i, data) ==
  /\ h[s].pc \in {"cc_fetch", "gm_fetch"}
  /\ i \in DOMAIN h[s].items
  /\ h[s].items[i].st = "reading"
  /\ data \in Fetched(store, h[s].blobs[i].url)
  /\ h' = [h EXCEPT ![s] =
             Joined([h[s] EXCEPT !.items[i] =
                       IF data.kind = "notjson" THEN Item("parsefail", NotJson)
                       ELSE Item("parsed", data)])]
  /\ UNCHANGED <<store, now, env>>

\* Date.now() advances (until every invocation has returned).
Tick ==
  /\ now < MaxClock
  /\ \E s \in Slots : h[s].pc # "done"
  /\ now' = now + 1
  /\ UNCHANGED <<h, store, env>>

Next ==
  \/ \E s \in Slots, r \in Requests : Receive(s, r)
  \/ \E s \in Slots : BodyRead(s)
  \/ \E s \in Slots, sfx \in Suffixes : PutResolved(s, sfx)
  \/ \E s \in Slots : ListResolved(s)
  \/ \E s \in Slots : DelResolved(s)
  \/ \E s \in Slots, msg \in StoreErrors : StoreRejected(s, msg)
  \/ \E s \in Slots, i \in 1..3, ok \in BOOLEAN : FetchSettled(s, i, ok)
  \/ \E s \in Slots, i \in 1..3, data \in Documents : JsonSettled(s, i, data)
  \/ Tick

Spec == Init /\ [][Next]_vars

(***************************************************************************)
(* Properties.                                                             *)
(***************************************************************************)
Started(s) == h[s].pc # "idle"
Done(s) == h[s].pc = "done"
Returned(s) == Done(s) /\ Len(h[s].resp) = 1
Resp(s) == h[s].resp[1]
Is(s, method, action) ==
  Started(s) /\ h[s].req.method = method /\ ActionOf(h[s].req) = action

StoreCalls(s) == SelectSeq(h[s].calls, LAMBDA c : c.op \in {"put", "list", "del"})
Puts(s) == SelectSeq(h[s].calls, LAMBDA c : c.op = "put")
Dels(s) == SelectSeq(h[s].calls, LAMBDA c : c.op = "del")

\* The methods the table of spec section 4.1 gives each action.
Supported(action) ==
  CASE action = "upload" -> {"POST"}
    [] action = "cc" -> {"GET", "POST", "DELETE"}
    [] action = "save-enhanced" -> {"POST"}
    [] action = "list-uploads" -> {"GET"}
    [] action = "delete-upload" -> {"DELETE"}
    [] action = "get-metadata" -> {"GET"}
    [] OTHER -> Methods

Constrained == KnownActions \ {"health"}

\* C1: a request for a method-constrained action with a method (other than
\* OPTIONS) outside the action's supported set is answered 405
\* {success:false, error:"Method not allowed"} and makes no store call.
C1_MethodNotAllowed ==
  \A s \in Slots :
    ( /\ Started(s)
      /\ ActionOf(h[s].req) \in Constrained
      /\ h[s].req.method # "OPTIONS"
      /\ h[s].req.method \notin Supported(ActionOf(h[s].req)) )
    => /\ Returned(s)
       /\ Resp(s) = [status |-> 405, headers |-> corsHeaders,
                     body |-> [success |-> FALSE, error |-> "Method not allowed"]]
       /\ StoreCalls(s) = <<>>

\* C2: every OPTIONS request, whatever its action and parameters, is
\* answered 200 with a null body and the four fixed headers before any
\* route is entered: no put, list, del or fetch, and the body is not read.
C2_Preflight ==
  \A s \in Slots :
    (Started(s) /\ h[s].req.method = "OPTIONS")
    => /\ Returned(s)
       /\ Resp(s) = [status |-> 200, headers |-> corsHeaders, body |-> NullBody]
       /\ h[s].calls = <<>>
       /\ ~h[s].bodyRead

C2_Witness ==
  \E s \in Slots :
    /\ Is(s, "OPTIONS", "cc")
    /\ h[s].req.url # Absent
    /\ h[s].req.body.kind = "obj"
    /\ Done(s)

Rejections(s) == SelectSeq(h[s].outcomes, LAMBDA o : o = "rejected")
AllResolved(s) == Rejections(s) = <<>>

\* Inputs whose handling raises an exception before any store call.
RaisesOnBody(r) ==
  /\ r.method = "POST"
  /\ \/ /\ ActionOf(r) \in {"cc", "save-enhanced"}
        /\ r.body.kind \in {"notjson", "null"}
     \/ /\ ActionOf(r) = "save-enhanced"
        /\ r.body.kind = "obj"
        /\ r.body.image.t = "str"
        /\ Base64Match(r.body.image.s)[1]
        /\ AtobThrows(Base64Match(r.body.image.s)[2])

\* C3: an exception raised while a route is handled (body not JSON, a
\* property access on a null body, base64 decoding, a rejected put, list or
\* del) is caught: the handler returns exactly one response, 500
\* {success:false, error:<message>} with the fixed headers, and no
\* exception leaves the handler.
C3_Caught ==
  \A s \in Slots :
    /\ ~h[s].escaped
    /\ Len(h[s].resp) <= 1
    /\ Done(s) => Len(h[s].resp) = 1
    /\ (Done(s) /\ RaisesOnBody(h[s].req)) => Len(h[s].thrown) = 1
    /\ Rejections(s) # <<>> => Len(h[s].thrown) = 1
    /\ h[s].thrown # <<>>
       => /\ Returned(s)
          /\ Len(h[s].thrown) = 1
          /\ Resp(s).status = 500
          /\ Resp(s).headers = corsHeaders
          /\ Resp(s).body.success = FALSE
          /\ Resp(s).body.error = IF h[s].thrown[1] = ""
                                  THEN "Internal server error"
                                  ELSE h[s].thrown[1]
          /\ ("stack" \in DOMAIN Resp(s).body) <=> (env = "development")

C3_Witness ==
  \E s, u \in Slots :
    /\ s # u
    /\ Is(s, "POST", "save-enhanced")
    /\ h[s].outcomes = <<"resolved", "rejected">>
    /\ Is(u, "POST", "cc")
    /\ h[u].req.body.kind = "null"
    /\ Done(u)

IsDataUrl(image) == image.t = "str" /\ Base64Match(image.s)[1]

\* C4: a save-enhanced POST whose body has no image is answered 400; one
\* whose image is present but not of the data-URL shape (a non-matching
\* string, or a truthy number, object or array) is answered 400
\* {success:false, error:"Invalid image format"}; neither writes anything.
C4_InvalidImage ==
  \A s \in Slots :
    (Is(s, "POST", "save-enhanced") /\ Done(s) /\ h[s].req.body.kind = "obj")
    => LET image == h[s].req.body.image
       IN /\ ~Truthy(image)
             => Returned(s) /\ Resp(s).status = 400 /\ h[s].calls = <<>>
          /\ (Truthy(image) /\ ~IsDataUrl(image))
             => /\ Returned(s)
                /\ Resp(s) = [status |-> 400, headers |-> corsHeaders,
                              body |-> [success |-> FALSE,
                                        error |-> "Invalid image format"]]
                /\ h[s].calls = <<>>

\* The metadata put of a save-enhanced request was issued and rejected.
MetadataPutFailed(s) ==
  /\ Is(s, "POST", "save-enhanced")
  /\ Len(Puts(s)) = 2
  /\ h[s].outcomes = <<"resolved", "rejected">>

InStore(pathname) == \E i \in DOMAIN store : store[i].pathname = pathname

DelIssuedFor(url) ==
  \E u \in Slots : \E i \in DOMAIN h[u].calls : h[u].calls[i] = DelCall(url)

\* C5 as stated: when the image put succeeds and the metadata put fails,
\* the failure is ignored and the request completes with the 200 success
\* envelope of the image, the image staying in the store and no del issued.
C5_MetadataFailureIgnored ==
  \A s \in Slots :
    MetadataPutFailed(s)
    => /\ Returned(s)
       /\ Resp(s).status = 200
       /\ Resp(s).body.success = TRUE
       /\ Dels(s) = <<>>

\* C5 amended: when the image put succeeds and the metadata put fails, the
\* image write is not rolled back (the request issues no del, and the image
\* object stays in the store unless some other request deletes its url),
\* and the request is answered 500 {success:false, error:<message>}.
C5_MetadataFailureIs500 ==
  \A s \in Slots :
    MetadataPutFailed(s)
    => /\ Returned(s)
       /\ Resp(s).status = 500
       /\ Resp(s).body.success = FALSE
       /\ Resp(s).body.error \in (StoreErrors \ {""}) \cup {"Internal server error"}
       /\ Dels(s) = <<>>
       /\ Len(h[s].calls) = 2
       /\ h[s].blob.url = Url(Puts(s)[1].pathname)
       /\ InStore(Puts(s)[1].pathname) \/ DelIssuedFor(h[s].blob.url)

C5_Witness ==
  \E s \in Slots : MetadataPutFailed(s) /\ InStore(Puts(s)[1].pathname)

CcPostSucceeded(s) ==
  Is(s, "POST", "cc") /\ Returned(s) /\ Resp(s).status = 200

\* C6: any two cc POST requests that both succeed put to distinct
\* pathnames, so neither stored filter overwrites the other.
C6_DistinctPathnames ==
  \A s, u \in Slots :
    (s # u /\ CcPostSucceeded(s) /\ CcPostSucceeded(u))
    => Puts(s)[1].pathname # Puts(u)[1].pathname

\* The list of a cc GET resolved (the request fetched, or answered 200).
CcGetListed(s) ==
  Is(s, "GET", "cc") /\ Done(s) /\ h[s].outcomes = <<"resolved">>

RECURSIVE UrlsAt(_, _, _)
\* The urls of the listed blobs whose index is in the set ok, in list order.
UrlsAt(blobs, ok, i) ==
  IF i > Len(blobs) THEN <<>>
  ELSE (IF i \in ok THEN <<blobs[i].url>> ELSE <<>>) \o UrlsAt(blobs, ok, i + 1)

\* The listed objects whose fetch and response.json() both succeeded.
Parsed(s) == {i \in DOMAIN h[s].items : h[s].items[i].st = "parsed"}
ParsedNonNull(s) == {i \in Parsed(s) : h[s].items[i].data.kind # "null"}

FilterUrls(s) == [i \in DOMAIN Resp(s).body.filters |-> Resp(s).body.filters[i].url]

\* C7 as stated: once the list of a cc GET succeeded, whatever fetches or
\* parses fail and in whatever order they complete, the answer is 200
\* success:true with exactly one filter, in list order, for each object
\* whose fetch and parse succeeded, and count the number of filters.
C7_OneEntryPerParsed ==
  \A s \in Slots :
    CcGetListed(s)
    => /\ Returned(s)
       /\ Resp(s).status = 200
       /\ Resp(s).body.success = TRUE
       /\ FilterUrls(s) = UrlsAt(h[s].blobs, Parsed(s), 1)
       /\ Resp(s).body.count = Len(Resp(s).body.filters)

\* C7 amended: the same, with one filter for each object whose fetch and
\* parse succeeded with a document other than the JSON value null; an
\* object whose document is null is dropped like a failed one.
C7_OneEntryPerParsedNonNull ==
  \A s \in Slots :
    /\ Is(s, "GET", "cc") /\ h[s].outcomes = <<"resolved">>
       => /\ Len(h[s].calls) = Len(h[s].blobs) + 1
          /\ \A i \in DOMAIN h[s].items :
               h[s].calls[i + 1] = FetchCall(h[s].blobs[i].url)
    /\ CcGetListed(s)
       => /\ Returned(s)
          /\ Resp(s).status = 200
          /\ Resp(s).headers = corsHeaders
          /\ Resp(s).body.success = TRUE
          /\ FilterUrls(s) = UrlsAt(h[s].blobs, ParsedNonNull(s), 1)
          /\ Resp(s).body.count = Len(Resp(s).body.filters)
          /\ \A i \in DOMAIN h[s].items : Settled(h[s].items[i])

\* Two listed objects, the first unfetchable or unparsable, the second
\* parsed, the second settling before the first.
C7_Witness ==
  \E s \in Slots :
    /\ CcGetListed(s)
    /\ Len(h[s].blobs) >= 2
    /\ h[s].items[1].st \in {"fetchfail", "parsefail"}
    /\ h[s].items[2].st = "parsed"
    /\ h[s].items[2].data.kind = "obj"
    /\ Resp(s).body.count = 1

IsString(j) == j.t = "str"

LacksNameOrValues(body) ==
  body.kind = "obj" /\ (~Truthy(body.name) \/ ~Truthy(body.values))
HasNameAndValues(body) ==
  body.kind = "obj" /\ IsString(body.name) /\ Truthy(body.name) /\ Truthy(body.values)

\* C8: a cc POST whose body lacks a non-empty name or lacks values is
\* answered 400 "Missing name or values" and puts nothing; a cc DELETE or
\* delete-upload DELETE without url is answered 400 and deletes nothing.
\* With the input present, exactly one put (cc POST), or exactly one del of
\* the url as given (the two deletes), is issued, and none other.
C8_RequiredInputs ==
  \A s \in Slots :
    /\ (Is(s, "POST", "cc") /\ Done(s) /\ LacksNameOrValues(h[s].req.body))
       => /\ Returned(s)
          /\ Resp(s) = [status |-> 400, headers |-> corsHeaders,
                        body |-> [success |-> FALSE,
                                  error |-> "Missing name or values"]]
          /\ h[s].calls = <<>>
    /\ (Is(s, "POST", "cc") /\ h[s].pc # "cc_json"
          /\ HasNameAndValues(h[s].req.body))
       => /\ Len(h[s].calls) = 1
          /\ h[s].calls[1].op = "put"
          /\ h[s].calls[1].pathname.dir = "cc-filters/"
          /\ h[s].calls[1].content = h[s].req.body
    /\ ((Is(s, "DELETE", "cc") \/ Is(s, "DELETE", "delete-upload"))
          /\ h[s].req.url \in {Absent, ""})
       => /\ Returned(s)
          /\ Resp(s).status = 400
          /\ Resp(s).body.success = FALSE
          /\ h[s].calls = <<>>
    /\ ((Is(s, "DELETE", "cc") \/ Is(s, "DELETE", "delete-upload"))
          /\ h[s].req.url \notin {Absent, ""})
       => h[s].calls = <<DelCall(h[s].req.url)>>

C8_Witness ==
  \E s, u \in Slots :
    /\ CcPostSucceeded(s)
    /\ Is(u, "DELETE", "delete-upload")
    /\ Returned(u)
    /\ Resp(u).status = 200
    /\ h[u].calls = <<DelCall(Url(PathA))>>
    /\ ~InStore(PathA)

ValidImage(body) ==
  /\ body.kind = "obj"
  /\ IsDataUrl(body.image)
  /\ ~AtobThrows(Base64Match(body.image.s)[2])

SuccessEnvelope(s) ==
  [status |-> 200, headers |-> corsHeaders,
   body |-> [success |-> TRUE, url |-> Url(h[s].calls[1].pathname),
             downloadUrl |-> Url(h[s].calls[1].pathname),
             size |-> AtobLength(Base64Match(h[s].req.body.image.s)[2])]]

\* C9: a save-enhanced POST with a valid image and no metadata issues
\* exactly one put, under enhanced/, and (the put succeeding) is answered
\* 200 {success:true, url, downloadUrl, size}; with metadata it issues the
\* image put first and the metadata put second, the second only once the
\* first has succeeded, its document carrying the url the first returned,
\* and no third call.
C9_SaveEnhancedPuts ==
  \A s \in Slots :
    (Is(s, "POST", "save-enhanced") /\ h[s].pc # "se_json"
       /\ ValidImage(h[s].req.body))
    => LET calls == h[s].calls
           metadata == Truthy(h[s].req.body.metadata)
       IN /\ Len(calls) >= 1
          /\ calls[1].op = "put"
          /\ calls[1].pathname.dir = "enhanced/"
          /\ Len(calls) <= (IF metadata THEN 2 ELSE 1)
          /\ (Done(s) /\ AllResolved(s))
             => /\ Returned(s)
                /\ Resp(s) = SuccessEnvelope(s)
                /\ Len(calls) = (IF metadata THEN 2 ELSE 1)
          /\ Len(calls) = 2
             => /\ calls[2].op = "put"
                /\ calls[2].pathname.dir = "metadata/"
                /\ h[s].blob.url = Url(calls[1].pathname)
                /\ calls[2].content.imageUrl = h[s].blob.url
          /\ (metadata /\ h[s].pc = "se_put") => Len(calls) = 1
          /\ (metadata /\ h[s].blob # NoBlob) => Len(calls) = 2

C9_Witness ==
  \E s, u \in Slots :
    /\ s # u
    /\ Is(s, "POST", "save-enhanced") /\ Is(u, "POST", "save-enhanced")
    /\ ValidImage(h[s].req.body) /\ ValidImage(h[u].req.body)
    /\ Truthy(h[s].req.body.metadata) /\ ~Truthy(h[u].req.body.metadata)
    /\ Returned(s) /\ Resp(s).status = 200 /\ Len(Puts(s)) = 2
    /\ Returned(u) /\ Resp(u).status = 200 /\ Len(Puts(u)) = 1

NotFoundResponse ==
  [status |-> 404, headers |-> corsHeaders,
   body |-> [success |-> FALSE, error |-> "Invalid action",
             availableActions |-> availableActions]]

\* C10: every non-OPTIONS request whose action is absent or none of the
\* seven names is answered 404 "Invalid action" with the seven names and
\* makes no store call; and only such requests are answered 404.
C10_InvalidAction ==
  \A s \in Slots :
    /\ (Started(s) /\ h[s].req.method # "OPTIONS"
          /\ ActionOf(h[s].req) \notin KnownActions)
       => Returned(s) /\ Resp(s) = NotFoundResponse /\ h[s].calls = <<>>
    /\ (Returned(s) /\ Resp(s).status = 404)
       => ActionOf(h[s].req) \notin KnownActions

====
